---- MODULE Spec2Model ----
(***************************************************************************)
(* Resumake (src/app.py): a Streamlit script, run again from the top on    *)
(* every interaction.  Modelled here are the two export functions with the *)
(* download section that calls them, the Resume Builder's Save handlers,   *)
(* and the handlers of one session on the page it is on: the sidebar's key *)
(* field, Generate Resume and AI Review, the saved versions and edit mode, *)
(* the sidebar, the ATS scan with its score display, and the three         *)
(* conversations of the AI Assistant.                                      *)
(*                                                                         *)
(* A text is a sequence of one-character strings; a form field other than  *)
(* the name is a string of which only emptiness matters.                   *)
(***************************************************************************)
EXTENDS Integers, Sequences, FiniteSets, TLC

VARIABLES
    PDF_EXPORT_SUPPORT,  \* line 28/30: reportlab importable
    DOCX_SUPPORT,        \* line 19/21: python-docx importable
    generated_resume,    \* st.session_state.generated_resume
    call,                \* the last direct call of an export function and its result
    downloads,           \* what the download section offered when it last ran
    errors,              \* the st.error messages of the last operation
    resume_data,         \* st.session_state.resume_data
    last_save,           \* the form contents the last Save handler read
    nsaves,              \* number of Save presses so far (bounded)
    resume_versions,     \* st.session_state.resume_versions, in insertion order
    PDF_SUPPORT,         \* line 13/15: PyPDF2 importable
    GROQ_API_KEY,        \* os.environ["GROQ_API_KEY"], one value for the process
    page,                \* st.session_state.page
    assist_mode,         \* the radio of line 808
    edit_mode,           \* st.session_state.edit_mode
    uploaded_resume,     \* st.session_state.uploaded_resume
    chat_history_general,    \* st.session_state.chat_history_general
    chat_history_guidance,   \* st.session_state.chat_history_guidance
    chat_history_interview,  \* st.session_state.chat_history_interview
    run,                 \* the last button press: what it called and displayed
    peer,                \* a second session of the same process
    statistics,          \* the four metrics of lines 567-585 as last displayed
    reclassified         \* a heading line with one character lower-cased

vars == <<PDF_EXPORT_SUPPORT, DOCX_SUPPORT, generated_resume, call, downloads, errors,
          resume_data, last_save, nsaves, resume_versions, PDF_SUPPORT, GROQ_API_KEY, page, assist_mode,
          edit_mode, uploaded_resume, chat_history_general, chat_history_guidance,
          chat_history_interview, run, peer, statistics, reclassified>>

export_vars == <<PDF_EXPORT_SUPPORT, DOCX_SUPPORT, generated_resume, call, downloads, errors>>
builder_vars == <<resume_data, last_save, nsaves, resume_versions>>
chat_vars == <<chat_history_general, chat_history_guidance, chat_history_interview>>
session_vars == <<PDF_SUPPORT, GROQ_API_KEY, page, assist_mode, edit_mode,
                  uploaded_resume, chat_vars, run>>
other_vars == <<peer, statistics, reclassified>>

----------------------------------------------------------------------------
(* Bounds of the model *)

\* a text is the concatenation of at most MaxChunks chunks
MaxChunks == 3
\* number of entries a section form holds (num_edu etc., at most 10 in the code)
MaxEntries == 2
\* number of Save presses in a session
MaxSaves == 1
\* number of job descriptions filled in for a scan (num_jobs, at most 3 in the code)
MaxJobs == 2
\* number of turns a conversation log holds
MaxTurns == 4
\* number of versions a session saves
MaxVersions == 2
\* the integer scores a response holds are -ScoreSpan..ScoreSpan
ScoreSpan == 170

----------------------------------------------------------------------------
(* Python string built-ins, on sequences of characters *)

UpperChars == {"A", "B", "C", "D", "E", "F", "G", "H", "I", "J", "K", "L", "M",
               "N", "O", "P", "Q", "R", "S", "T", "U", "V", "W", "X", "Y", "Z"}
LowerChars == {"a", "b", "c", "d", "e", "f", "g", "h", "i", "j", "k", "l", "m",
               "n", "o", "p", "q", "r", "s", "t", "u", "v", "w", "x", "y", "z"}
SpaceChars == {" ", "\t", "\n"}

ascii_uppercase ==
    <<"A", "B", "C", "D", "E", "F", "G", "H", "I", "J", "K", "L", "M", "N", "O", "P",
      "Q", "R", "S", "T", "U", "V", "W", "X", "Y", "Z">>
ascii_lowercase ==
    <<"a", "b", "c", "d", "e", "f", "g", "h", "i", "j", "k", "l", "m", "n", "o", "p",
      "q", "r", "s", "t", "u", "v", "w", "x", "y", "z">>
Digits == {"0", "1", "2", "3", "4", "5", "6", "7", "8", "9"}

\* str.lower(), character by character
lower(s) ==
    [i \in DOMAIN s |->
        IF s[i] \in UpperChars
        THEN ascii_lowercase[CHOOSE k \in DOMAIN ascii_uppercase : ascii_uppercase[k] = s[i]]
        ELSE s[i]]

\* sub in s
contains(s, sub) ==
    \E i \in 1..(Len(s) - Len(sub) + 1) : SubSeq(s, i, i + Len(sub) - 1) = sub

\* some character of s is an upper-case letter
isupper_some(s) == \E i \in DOMAIN s : s[i] \in UpperChars

\* str.isupper(): no lower-case cased character and at least one cased one
isupper(s) ==
    /\ \A i \in DOMAIN s : s[i] \notin LowerChars
    /\ \E i \in DOMAIN s : s[i] \in UpperChars

RECURSIVE lstrip(_)
lstrip(s) ==
    IF s = <<>> THEN <<>>
    ELSE IF Head(s) \in SpaceChars THEN lstrip(Tail(s)) ELSE s

RECURSIVE rstrip(_)
rstrip(s) ==
    IF s = <<>> THEN <<>>
    ELSE IF s[Len(s)] \in SpaceChars THEN rstrip(SubSeq(s, 1, Len(s) - 1)) ELSE s

\* the elements of a list
Range(q) == {q[i] : i \in DOMAIN q}

\* nothing is stripped
strip_nothing(s) == s

\* str.strip()
strip(s) == rstrip(lstrip(s))

\* str.split(sep) for a one-character sep: always at least one segment
RECURSIVE split_on(_, _)
split_on(s, sep) ==
    IF \A i \in DOMAIN s : s[i] # sep THEN <<s>>
    ELSE LET k == CHOOSE i \in DOMAIN s :
                      s[i] = sep /\ \A j \in 1..(i - 1) : s[j] # sep
         IN <<SubSeq(s, 1, k - 1)>> \o split_on(SubSeq(s, k + 1, Len(s)), sep)

\* str.split(): the maximal runs of non-whitespace characters
RECURSIVE split(_)
split(s) ==
    LET t == lstrip(s) IN
    IF t = <<>> THEN <<>>
    ELSE LET ends == {i \in DOMAIN t : t[i] \in SpaceChars}
             k == IF ends = {} THEN Len(t) + 1
                  ELSE CHOOSE i \in ends : \A j \in ends : i <= j
         IN <<SubSeq(t, 1, k - 1)>> \o split(SubSeq(t, k, Len(t)))

\* str.replace(old, new) for a one-character old
RECURSIVE replace(_, _, _)
replace(s, old, new) ==
    IF s = <<>> THEN <<>>
    ELSE (IF Head(s) = old THEN new ELSE <<Head(s)>>) \o replace(Tail(s), old, new)

----------------------------------------------------------------------------
(* Export functions (lines 95-164) *)

\* hundredths of an inch of Spacer(1, 0.05*inch)
SpacerHeight == 5
\* len(line.split()) <= 8
MaxHeadingWords == 8
\* Pt(12) and Pt(11)
HeadingPt == 12
BodyPt == 11
\* the font size of styles['Normal'] in reportlab's sample style sheet
NormalFontSize == 10

AMP == <<"&", "a", "m", "p", ";">>
LT == <<"&", "l", "t", ";">>
GT == <<"&", "g", "t", ";">>

\* what a function returns instead of bytes
None == [bytes |-> FALSE, format |-> "", body |-> <<>>]
\* buffer.getvalue() after the document was written to the buffer
Bytes(format, body) == [bytes |-> TRUE, format |-> format, body |-> body]

\* how a call ends: the value returned and the st.error messages shown, or an
\* exception raised to the caller
Returned(data, messages) == [data |-> data, errors |-> messages, raised |-> FALSE]
Raised == [data |-> None, errors |-> <<>>, raised |-> TRUE]

Spacer(h) == [kind |-> "Spacer", markup |-> <<>>, style |-> "", height |-> h]
Paragraph(markup, style) ==
    [kind |-> "Paragraph", markup |-> markup, style |-> style, height |-> 0]

\* the three replacements with '&' escaped last
line_safe_amp_last(line) ==
    replace(replace(replace(line, "<", LT), ">", GT), "&", AMP)

\* line 115
line_safe(line) == replace(replace(replace(line, "&", AMP), "<", LT), ">", GT)

\* line 117
pdf_is_heading(line) == isupper(line) /\ Len(split(line)) <= MaxHeadingWords

\* an empty line given an empty paragraph instead of a Spacer
pdf_flowable_empty_paragraph(raw) ==
    LET line == strip(raw) IN
    IF line = <<>> THEN Paragraph(<<>>, "Normal")
    ELSE IF pdf_is_heading(line)
         THEN Paragraph(<<"<", "b", ">">> \o line_safe(line) \o <<"<", "/", "b", ">">>,
                        "Normal")
         ELSE Paragraph(line_safe(line), "Normal")

\* story.append(para) reached by body lines only
pdf_flowable_drop_heading(raw) ==
    LET line == strip(raw) IN
    IF line = <<>> \/ pdf_is_heading(line) THEN Spacer(SpacerHeight)
    ELSE Paragraph(line_safe(line), "Normal")

\* lines 110-122: the flowable one input line appends to the story
pdf_flowable(raw) ==
    LET line == strip(raw) IN
    IF line = <<>> THEN Spacer(SpacerHeight)
    ELSE IF pdf_is_heading(line)
         THEN Paragraph(<<"<", "b", ">">> \o line_safe(line) \o <<"<", "/", "b", ">">>,
                        "Normal")
         ELSE Paragraph(line_safe(line), "Normal")

\* lines 107-122
pdf_story(resume_text) ==
    LET lines == split_on(resume_text, "\n")
    IN [i \in 1..Len(lines) |-> pdf_flowable(lines[i])]

\* a blank text refused before any document is assembled
export_to_pdf_empty_input(resume_text, fault) ==
    IF ~PDF_EXPORT_SUPPORT THEN Returned(None, <<>>)
    ELSE IF \A i \in DOMAIN resume_text : resume_text[i] \in SpaceChars
         THEN Returned(None, <<>>)
    ELSE IF fault THEN Returned(None, <<"PDF Error">>)
    ELSE Returned(Bytes("pdf", pdf_story(resume_text)), <<>>)

\* the except branch returning what the buffer holds so far
export_to_pdf_partial(resume_text, fault) ==
    IF ~PDF_EXPORT_SUPPORT THEN Returned(None, <<>>)
    ELSE IF fault THEN Returned(Bytes("pdf", <<>>), <<"PDF Error">>)
    ELSE Returned(Bytes("pdf", pdf_story(resume_text)), <<>>)

\* lines 96-129; fault: some step between lines 102 and 126 raises
export_to_pdf(resume_text, fault) ==
    IF ~PDF_EXPORT_SUPPORT THEN Returned(None, <<>>)
    ELSE IF fault THEN Returned(None, <<"PDF Error">>)
    ELSE Returned(Bytes("pdf", pdf_story(resume_text)), <<>>)

\* the heading test with the word limit off by one
docx_is_heading_lt(line) == isupper(line) /\ Len(split(line)) < MaxHeadingWords

\* line 150
docx_is_heading(line) == isupper(line) /\ Len(split(line)) <= MaxHeadingWords

\* a paragraph of the document: its text and the font of its runs; an empty
\* paragraph has no run, so no bold and no size (0)
DocxParagraph(text, bold, size) == [text |-> text, bold |-> bold, size |-> size]

\* lines 143-156: the paragraph one input line adds to the document
docx_paragraph(raw) ==
    LET line == strip(raw) IN
    IF line = <<>> THEN DocxParagraph(<<>>, FALSE, 0)
    ELSE IF docx_is_heading(line)
         THEN DocxParagraph(line, TRUE, HeadingPt)
         ELSE DocxParagraph(line, FALSE, BodyPt)

\* lines 140-156
docx_document(resume_text) ==
    LET lines == split_on(resume_text, "\n")
    IN [i \in 1..Len(lines) |-> docx_paragraph(lines[i])]

\* the guard of line 134 testing the other encoder's flag
export_to_docx_pdf_flag(resume_text, fault) ==
    IF ~PDF_EXPORT_SUPPORT THEN Returned(None, <<>>)
    ELSE IF fault THEN Returned(None, <<"DOCX Error">>)
    ELSE Returned(Bytes("docx", docx_document(resume_text)), <<>>)

\* lines 131-164; fault: some step between lines 137 and 161 raises
export_to_docx(resume_text, fault) ==
    IF ~DOCX_SUPPORT THEN Returned(None, <<>>)
    ELSE IF fault THEN Returned(None, <<"DOCX Error">>)
    ELSE Returned(Bytes("docx", docx_document(resume_text)), <<>>)

----------------------------------------------------------------------------
(* The texts the export functions are applied to *)

\* eight upper-case words, a blank after each
EightWords ==
    <<"A", " ", "A", " ", "A", " ", "A", " ", "A", " ", "A", " ", "A", " ", "A", " ">>

Chunks ==
    {<<"A">>, <<"a">>, <<"1">>, <<" ">>, <<"\n">>, <<"&">>, <<"<", "b", ">">>, EightWords}

RECURSIVE TextsUpTo(_)
TextsUpTo(n) ==
    IF n = 0 THEN {<<>>}
    ELSE LET shorter == TextsUpTo(n - 1)
         IN shorter \cup {t \o c : t \in shorter, c \in Chunks}

Texts == TextsUpTo(MaxChunks)

----------------------------------------------------------------------------
(* The heading test on a line and on the line with one character lower-cased *)

\* line[:i] + line[i].lower() + line[i+1:]
lower_at(line, i) == [line EXCEPT ![i] = lower(<<line[i]>>)[1]]

\* lines 110-117 and 143-150, applied to a heading line of the text changed
\* in one character
Reclassify ==
    /\ ~reclassified.done
    /\ \E raw \in Range(split_on(generated_resume, "\n")) :
         LET line == strip(raw) IN
         /\ line # <<>>
         /\ pdf_is_heading(line) /\ docx_is_heading(line)
         /\ \E i \in DOMAIN line :
              LET lowered == strip(lower_at(line, i)) IN
              reclassified' =
                  [done |-> TRUE, line |-> line, index |-> i, lowered |-> lowered,
                   pdf_heading |-> lowered # <<>> /\ pdf_is_heading(lowered),
                   docx_heading |-> lowered # <<>> /\ docx_is_heading(lowered)]
    /\ UNCHANGED <<export_vars, builder_vars, session_vars, peer, statistics>>

----------------------------------------------------------------------------
(* The download section and direct calls of the export functions *)

NoCall == [fn |-> "none", fault |-> FALSE, data |-> None, raised |-> FALSE]
NoDownloads ==
    [shown |-> FALSE, file_name_base |-> <<>>, txt |-> <<>>, pdf |-> None,
     docx |-> None, pdf_fault |-> FALSE, docx_fault |-> FALSE, raised |-> FALSE]

\* a step of document assembly can fail only where the encoder is there to run
Faults(supported) == IF supported THEN BOOLEAN ELSE {FALSE}

\* dict.get(key, default); the empty dict {} is modelled as <<>>
dict_get(d, key, default) == IF key \in DOMAIN d THEN d[key] ELSE default

\* line 588
file_name_base(personal_info) ==
    replace(dict_get(personal_info, "name", <<"r", "e", "s", "u", "m", "e">>),
            " ", <<"_">>)

\* the text trimmed before it is offered
txt_data_stripped(resume_text) == strip(resume_text)

\* lines 593-600: data=st.session_state.generated_resume
txt_data(resume_text) == resume_text

\* a call of export_to_pdf(generated_resume)
CallExportToPdf ==
    /\ call = NoCall /\ ~downloads.shown
    /\ \E fault \in Faults(PDF_EXPORT_SUPPORT) :
         LET r == export_to_pdf(generated_resume, fault) IN
         /\ call' = [fn |-> "export_to_pdf", fault |-> fault, data |-> r.data,
                     raised |-> r.raised]
         /\ errors' = r.errors
    /\ UNCHANGED <<PDF_EXPORT_SUPPORT, DOCX_SUPPORT, generated_resume, downloads>>
    /\ UNCHANGED <<builder_vars, session_vars, other_vars>>

\* a call of export_to_docx(generated_resume)
CallExportToDocx ==
    /\ call = NoCall /\ ~downloads.shown
    /\ \E fault \in Faults(DOCX_SUPPORT) :
         LET r == export_to_docx(generated_resume, fault) IN
         /\ call' = [fn |-> "export_to_docx", fault |-> fault, data |-> r.data,
                     raised |-> r.raised]
         /\ errors' = r.errors
    /\ UNCHANGED <<PDF_EXPORT_SUPPORT, DOCX_SUPPORT, generated_resume, downloads>>
    /\ UNCHANGED <<builder_vars, session_vars, other_vars>>

\* lines 547 and 587-626: the download buttons of one run of the script; a
\* formatted download is offered when its encoder is there and returned bytes;
\* an exception out of an export function would end the run there
DownloadSection ==
    /\ page = "Resume Builder"
    /\ call = NoCall /\ ~downloads.shown
    /\ generated_resume # <<>>
    /\ \E pdf_fault \in Faults(PDF_EXPORT_SUPPORT), docx_fault \in Faults(DOCX_SUPPORT) :
         LET pdf == IF PDF_EXPORT_SUPPORT
                    THEN export_to_pdf(generated_resume, pdf_fault)
                    ELSE Returned(None, <<>>)
             docx == IF pdf.raised THEN Raised
                     ELSE IF DOCX_SUPPORT
                          THEN export_to_docx(generated_resume, docx_fault)
                          ELSE Returned(None, <<>>)
         IN /\ downloads' = [shown |-> TRUE,
                             file_name_base |-> file_name_base(resume_data.personal_info),
                             txt |-> txt_data(generated_resume),
                             pdf |-> pdf.data, docx |-> docx.data,
                             pdf_fault |-> pdf_fault, docx_fault |-> docx_fault,
                             raised |-> pdf.raised \/ docx.raised]
            /\ errors' = pdf.errors \o docx.errors
    /\ UNCHANGED <<PDF_EXPORT_SUPPORT, DOCX_SUPPORT, generated_resume, call>>
    /\ UNCHANGED <<builder_vars, session_vars, other_vars>>

----------------------------------------------------------------------------
(* Resume Builder: the section forms and their Save handlers (lines 342-473) *)

\* what the user typed in the two key fields of one form entry
KeyPairs == {<<"x", "z">>, <<"y", "z">>, <<"", "z">>, <<"x", "">>}

RECURSIVE SeqsUpTo(_, _)
SeqsUpTo(S, n) ==
    IF n = 0 THEN {<<>>}
    ELSE LET shorter == SeqsUpTo(S, n - 1)
         IN shorter \cup {Append(q, e) : q \in shorter, e \in S}

\* the widgets of entries 0..n-1 of each section, n <= MaxEntries
EducationForms ==
    SeqsUpTo({[degree |-> p[1], institution |-> p[2], year |-> "", gpa |-> ""]
                : p \in KeyPairs}, MaxEntries)
CertificationForms ==
    SeqsUpTo({[name |-> p[1], organization |-> p[2], date |-> ""] : p \in KeyPairs},
             MaxEntries)
ExperienceForms ==
    SeqsUpTo({[title |-> p[1], company |-> p[2], duration |-> "", description |-> ""]
                : p \in KeyPairs}, MaxEntries)
ProjectForms ==
    SeqsUpTo({[title |-> p[1], link |-> "", technologies |-> p[2], achievements |-> ""]
                : p \in KeyPairs}, MaxEntries)
SkillForms ==
    SeqsUpTo({[category |-> p[1], items |-> p[2]] : p \in KeyPairs}, MaxEntries)

\* a name typed in the Full Name field, as a text
AnnLee == <<"A", "n", "n", " ", "L", "e", "e">>

PersonalForms ==
    {[name |-> n, email |-> e, phone |-> "", linkedin |-> "", github |-> "",
      portfolio |-> "", target_role |-> t, summary |-> ""]
        : n \in {<<>>, AnnLee}, e \in {"", "e"}, t \in {"", "r"}}

\* lines 366-380: the loop over the form's entries
education_entries(form) ==
    SelectSeq(form, LAMBDA f : f.degree # "" /\ f.institution # "")
\* lines 388-402
cert_entries(form) ==
    SelectSeq(form, LAMBDA f : f.name # "" /\ f.organization # "")
\* lines 410-425
exp_entries(form) ==
    SelectSeq(form, LAMBDA f : f.title # "" /\ f.company # "")
\* lines 433-449
project_entries(form) ==
    SelectSeq(form, LAMBDA f : f.title # "" /\ f.technologies # "")
\* the test of line 467 with 'or' for 'and'
skill_entries_either(form) ==
    SelectSeq(form, LAMBDA f : f.category # "" \/ f.items # "")

\* lines 457-469
skill_entries(form) ==
    SelectSeq(form, LAMBDA f : f.category # "" /\ f.items # "")

\* lines 65-73; personal_info is {} : a function with no key
EmptyResumeData ==
    [personal_info |-> <<>>, education |-> <<>>, certifications |-> <<>>,
     experience |-> <<>>, projects |-> <<>>, skills |-> <<>>]

\* one displayed message: st.error, st.success, st.info, st.warning, or the
\* traceback Streamlit shows for an exception that ends the run
Message(kind, text) == [kind |-> kind, text |-> text]

\* a button press: the calls of the external model it made, what it displayed
\* no file in the uploader
NoFile == [chosen |-> FALSE, type |-> "", content |-> <<>>, broken |-> FALSE]

\* text: the resume text the run took in (resume_to_scan, selected_resume,
\* the response of line 516, the text area of line 558);
\* jobs: the job descriptions it was given; file: the file in the uploader
Pressed(action, calls, messages, results) ==
    [action |-> action, calls |-> calls, messages |-> messages, results |-> results,
     text |-> <<>>, jobs |-> 0, file |-> NoFile]
NoRun == Pressed("none", 0, <<>>, <<>>)

\* a Save press on the Resume Builder page; the run has yet to reach the
\* download section (line 587), which comes after every handler of the page
Saved(section, form) ==
    /\ page = "Resume Builder"
    /\ nsaves < MaxSaves
    /\ nsaves' = nsaves + 1
    /\ last_save' = [section |-> section, form |-> form]
    /\ run' = Pressed(section, 0, <<Message("success", "saved")>>, <<>>)
    /\ downloads' = NoDownloads
    /\ UNCHANGED <<PDF_EXPORT_SUPPORT, DOCX_SUPPORT, generated_resume, call, errors>>
    /\ UNCHANGED <<PDF_SUPPORT, GROQ_API_KEY, page, assist_mode, edit_mode,
                   uploaded_resume, chat_vars>>
    /\ UNCHANGED <<resume_versions, other_vars>>

\* lines 356-362
SavePersonalInfo ==
    \E form \in PersonalForms :
        /\ resume_data' = [resume_data EXCEPT !.personal_info = form]
        /\ Saved("personal_info", <<form>>)

\* lines 382-384
SaveEducation ==
    \E form \in EducationForms :
        /\ resume_data' = [resume_data EXCEPT !.education = education_entries(form)]
        /\ Saved("education", form)

\* lines 404-406
SaveCertifications ==
    \E form \in CertificationForms :
        /\ resume_data' = [resume_data EXCEPT !.certifications = cert_entries(form)]
        /\ Saved("certifications", form)

\* the saved entries are put after the ones stored before
SaveWorkExperience_extend ==
    \E form \in ExperienceForms :
        /\ resume_data' = [resume_data EXCEPT !.experience = @ \o exp_entries(form)]
        /\ Saved("experience", form)

\* lines 427-429
SaveWorkExperience ==
    \E form \in ExperienceForms :
        /\ resume_data' = [resume_data EXCEPT !.experience = exp_entries(form)]
        /\ Saved("experience", form)

\* lines 451-453
SaveProjects ==
    \E form \in ProjectForms :
        /\ resume_data' = [resume_data EXCEPT !.projects = project_entries(form)]
        /\ Saved("projects", form)

\* lines 471-473
SaveSkills ==
    \E form \in SkillForms :
        /\ resume_data' = [resume_data EXCEPT !.skills = skill_entries(form)]
        /\ Saved("skills", form)

\* lines 341-470: a change of a form widget runs the script again; the widget
\* values are locals of the run and no handler fires
TypeInForm ==
    /\ page = "Resume Builder"
    /\ run' = Pressed("type", 0, <<>>, <<>>)
    /\ downloads' = NoDownloads
    /\ UNCHANGED <<PDF_EXPORT_SUPPORT, DOCX_SUPPORT, generated_resume, call, errors>>
    /\ UNCHANGED <<PDF_SUPPORT, GROQ_API_KEY, page, assist_mode, edit_mode,
                   uploaded_resume, chat_vars>>
    /\ UNCHANGED <<builder_vars, other_vars>>

----------------------------------------------------------------------------
(* Resume Statistics (lines 567-585) *)

\* line 579
ActionVerbs ==
    <<<<"l", "e", "d">>,
      <<"m", "a", "n", "a", "g", "e", "d">>,
      <<"d", "e", "v", "e", "l", "o", "p", "e", "d">>,
      <<"i", "m", "p", "l", "e", "m", "e", "n", "t", "e", "d">>,
      <<"c", "r", "e", "a", "t", "e", "d">>,
      <<"i", "m", "p", "r", "o", "v", "e", "d">>>>

\* the verbs are looked for in the text as it is
action_verbs_as_typed(text) ==
    Cardinality({k \in DOMAIN ActionVerbs : contains(text, ActionVerbs[k])})

\* lines 571, 575, 579-580, 584
word_count(text) == Len(split(text))
line_count(text) == Len(split_on(text, "\n"))
action_verbs(text) ==
    Cardinality({k \in DOMAIN ActionVerbs : contains(lower(text), ActionVerbs[k])})
metrics_count(text) == Cardinality({i \in DOMAIN text : text[i] \in Digits})

\* lines 547 and 567-585: the four metrics of one run of the script
ResumeStatistics ==
    /\ page = "Resume Builder"
    /\ generated_resume # <<>>
    /\ ~statistics.shown
    /\ statistics' = [shown |-> TRUE,
                      word_count |-> word_count(generated_resume),
                      line_count |-> line_count(generated_resume),
                      action_verbs |-> action_verbs(generated_resume),
                      metrics_count |-> metrics_count(generated_resume)]
    /\ UNCHANGED <<export_vars, builder_vars, session_vars, peer, reclassified>>

\* the texts the statistics are taken of
Scenario ==
    <<"J", "O", "H", "N", " ", "S", "M", "I", "T", "H", "\n", "\n", "S", "o", "f", "t",
      "w", "a", "r", "e", " ", "E", "n", "g", "i", "n", "e", "e", "r", "\n", "D",
      "e", "v", "e", "l", "o", "p", "e", "d", " ", "3", " ", "s", "y", "s", "t",
      "e", "m", "s", ".">>
StatChunks ==
    {<<"L", "e", "d">>, <<"h", "a", "n", "d", "l", "e", "d">>,
     <<"d", "e", "v", "e", "l", "o", "p", "e", "d">>, <<"3">>, <<"\n">>, <<" ">>}
\* a text with all six verbs
SixVerbs ==
    ActionVerbs[1] \o ActionVerbs[2] \o ActionVerbs[3] \o ActionVerbs[4]
        \o ActionVerbs[5] \o ActionVerbs[6]

RECURSIVE StatTextsUpTo(_)
StatTextsUpTo(n) ==
    IF n = 0 THEN {<<>>}
    ELSE LET shorter == StatTextsUpTo(n - 1)
         IN shorter \cup {t \o c : t \in shorter, c \in StatChunks}

StatTexts == StatTextsUpTo(MaxChunks) \cup {Scenario, SixVerbs}

----------------------------------------------------------------------------
(* The key, and the model calls of the Resume Builder page *)

\* a key is taken to be there whatever the environment holds
has_api_key_always == TRUE

\* lines 47-62: get_api_key() is read again in every run; init_llm returns
\* a client exactly when it is given a key
has_api_key == GROQ_API_KEY # ""

\* what chain.invoke can do: return a response with one of the contents, or
\* raise (network, quota, a key the service rejects)
Replies(contents) ==
    {[raised |-> FALSE, content |-> c] : c \in contents}
        \cup {[raised |-> TRUE, content |-> <<>>]}

\* contents of a generated resume
Responses == {<<"A", "\n", "a", "1">>, <<"a", " ", "b">>}
\* response.content of line 516: a resume, or nothing at all
GeneratedContents == Responses \cup {<<>>}
\* content of a review
Reviews == {<<"o", "k">>}

\* a displayed response: st.info of the raw content, or the analysis block of
\* lines 727-796 with its score, status label, colour and suggestions
Info(content) ==
    [kind |-> "info", content |-> content, has_score |-> FALSE, score |-> 0,
     keyword_match |-> "", status |-> "", color |-> ""]
Analysis(score, keyword_match, status, color, suggestions) ==
    [kind |-> "analysis", content |-> suggestions, has_score |-> TRUE, score |-> score,
     keyword_match |-> keyword_match, status |-> status, color |-> color]

\* lines 179-189: the key field is there while no key is configured; a key
\* typed into it goes to the environment of the process, and the run restarts
EnterApiKey ==
    /\ ~has_api_key
    /\ GROQ_API_KEY' = "k"
    /\ run' = Pressed("enter_api_key", 0, <<>>, <<>>)
    /\ downloads' = NoDownloads
    /\ UNCHANGED <<PDF_EXPORT_SUPPORT, DOCX_SUPPORT, generated_resume, call, errors>>
    /\ UNCHANGED <<PDF_SUPPORT, page, assist_mode, edit_mode, uploaded_resume, chat_vars>>
    /\ UNCHANGED <<builder_vars, other_vars>>

\* a response is stored with edit mode left as it is
generated_keeps_edit(reply, resume, edit) ==
    IF reply.raised
    THEN [generated_resume |-> resume, edit_mode |-> edit,
          run |-> Pressed("generate", 1, <<Message("exception", "invoke")>>, <<>>)]
    ELSE [generated_resume |-> reply.content, edit_mode |-> edit,
          run |-> [Pressed("generate", 1, <<>>, <<>>) EXCEPT !.text = reply.content]]

\* a call that raises takes the resume and edit mode with it
generated_or_reset(reply, resume, edit) ==
    IF reply.raised
    THEN [generated_resume |-> <<>>, edit_mode |-> FALSE,
          run |-> Pressed("generate", 1, <<Message("exception", "invoke")>>, <<>>)]
    ELSE [generated_resume |-> reply.content, edit_mode |-> FALSE,
          run |-> [Pressed("generate", 1, <<>>, <<>>) EXCEPT !.text = reply.content]]

\* lines 505-519: chain.invoke raises and ends the run with its traceback, or
\* returns and lines 516-519 store the response
generated(reply, resume, edit) ==
    IF reply.raised
    THEN [generated_resume |-> resume, edit_mode |-> edit,
          run |-> Pressed("generate", 1, <<Message("exception", "invoke")>>, <<>>)]
    ELSE [generated_resume |-> reply.content, edit_mode |-> FALSE,
          run |-> [Pressed("generate", 1, <<>>, <<>>) EXCEPT !.text = reply.content]]

\* lines 480-519; the success message goes with the rerun of line 519
GenerateResume ==
    /\ page = "Resume Builder"
    /\ IF ~has_api_key
       THEN /\ run' = Pressed("generate", 0,
                              <<Message("error", "Please configure your Groq API key!")>>,
                              <<>>)
            /\ UNCHANGED <<generated_resume, edit_mode>>
       ELSE IF dict_get(resume_data.personal_info, "name", <<>>) = <<>>
       THEN /\ run' = Pressed("generate", 0,
                              <<Message("error", "Please fill in personal information!")>>,
                              <<>>)
            /\ UNCHANGED <<generated_resume, edit_mode>>
       ELSE \E reply \in Replies(GeneratedContents) :
              LET after == generated(reply, generated_resume, edit_mode)
              IN /\ generated_resume' = after.generated_resume
                 /\ edit_mode' = after.edit_mode
                 /\ run' = after.run
    /\ downloads' = NoDownloads
    /\ UNCHANGED <<PDF_EXPORT_SUPPORT, DOCX_SUPPORT, call, errors>>
    /\ UNCHANGED <<PDF_SUPPORT, GROQ_API_KEY, page, assist_mode, uploaded_resume, chat_vars>>
    /\ UNCHANGED <<builder_vars, other_vars>>

\* lines 522-535; without a client, review_prompt | llm raises before any call
AIReview ==
    /\ page = "Resume Builder"
    /\ IF generated_resume = <<>>
       THEN run' = Pressed("review", 0,
                           <<Message("error", "Please generate a resume first!")>>, <<>>)
       ELSE IF ~has_api_key
       THEN run' = Pressed("review", 0, <<Message("exception", "pipe")>>, <<>>)
       ELSE \E reply \in Replies(Reviews) :
              run' = IF reply.raised
                     THEN Pressed("review", 1, <<Message("exception", "invoke")>>, <<>>)
                     ELSE Pressed("review", 1, <<>>, <<Info(reply.content)>>)
    /\ downloads' = NoDownloads
    /\ UNCHANGED <<PDF_EXPORT_SUPPORT, DOCX_SUPPORT, generated_resume, call, errors>>
    /\ UNCHANGED <<PDF_SUPPORT, GROQ_API_KEY, page, assist_mode, edit_mode,
                   uploaded_resume, chat_vars>>
    /\ UNCHANGED <<builder_vars, other_vars>>

----------------------------------------------------------------------------
(* Versions, edit mode and the sidebar (lines 537-565, 628-634, 194-199) *)

\* a dict in insertion order: d[key] = value replaces the value of a key that
\* is there and appends a key that is not
dict_set(d, key, value) ==
    IF \E i \in DOMAIN d : d[i].key = key
    THEN [i \in DOMAIN d |-> IF d[i].key = key THEN [key |-> key, value |-> value]
                             ELSE d[i]]
    ELSE Append(d, [key |-> key, value |-> value])
\* the first value, whatever the key
dict_item_first(d, key) == d[1].value
\* list(d.keys()) and d[key]
dict_keys(d) == [i \in DOMAIN d |-> d[i].key]
dict_item(d, key) == d[CHOOSE i \in DOMAIN d : d[i].key = key].value

\* the minutes datetime.now() of line 542 can fall in; the clock does not go
\* back, so a save is stamped no earlier than the saves before it
Minutes == {1, 2}
LaterMinutes(versions) ==
    {m \in Minutes : \A i \in DOMAIN versions : versions[i].key.timestamp <= m}

\* the label is the minute alone
version_name_minute_only(versions, timestamp) ==
    [counter |-> 0, timestamp |-> timestamp]

\* line 543: f"Version_{len(...) + 1}_{timestamp}", as its two parts
version_name(versions, timestamp) ==
    [counter |-> Len(versions) + 1, timestamp |-> timestamp]

\* what Save Changes can find in the text area of line 558: the resume as it
\* was put there, or what the user made of it
Edits == {<<>>, <<"e", "d">>}

BuilderFrame ==
    /\ downloads' = NoDownloads
    /\ UNCHANGED <<PDF_EXPORT_SUPPORT, DOCX_SUPPORT, call, errors>>
    /\ UNCHANGED <<resume_data, last_save, nsaves, other_vars>>
    /\ UNCHANGED <<PDF_SUPPORT, GROQ_API_KEY, page, assist_mode, uploaded_resume, chat_vars>>

\* lines 537-545
SaveVersion ==
    /\ page = "Resume Builder"
    /\ IF generated_resume = <<>>
       THEN /\ run' = Pressed("save_version", 0,
                              <<Message("error", "Please generate a resume first!")>>,
                              <<>>)
            /\ UNCHANGED resume_versions
       ELSE /\ Len(resume_versions) < MaxVersions
            /\ \E timestamp \in LaterMinutes(resume_versions) :
                 /\ resume_versions' =
                      dict_set(resume_versions, version_name(resume_versions, timestamp),
                               generated_resume)
                 /\ run' = Pressed("save_version", 0,
                                   <<Message("success",
                                             version_name(resume_versions, timestamp))>>,
                                   <<>>)
    /\ UNCHANGED <<generated_resume, edit_mode>>
    /\ BuilderFrame

\* lines 547-555: the Edit / View button, there while a resume is
ToggleEdit ==
    /\ page = "Resume Builder"
    /\ generated_resume # <<>>
    /\ edit_mode' = ~edit_mode
    /\ run' = Pressed("toggle_edit", 0, <<>>, <<>>)
    /\ UNCHANGED <<generated_resume, resume_versions>>
    /\ BuilderFrame

\* lines 557-563
SaveChanges ==
    /\ page = "Resume Builder"
    /\ generated_resume # <<>>
    /\ edit_mode
    /\ \E edited_resume \in Edits \cup {generated_resume} :
         /\ generated_resume' = edited_resume
         /\ run' = [Pressed("save_changes", 0, <<>>, <<>>) EXCEPT !.text = edited_resume]
    /\ edit_mode' = FALSE
    /\ UNCHANGED resume_versions
    /\ BuilderFrame

\* lines 628-634: the version history, inside the block of line 547
LoadSelectedVersion ==
    /\ page = "Resume Builder"
    /\ generated_resume # <<>>
    /\ resume_versions # <<>>
    /\ \E version_to_load \in Range(dict_keys(resume_versions)) :
         /\ generated_resume' = dict_item(resume_versions, version_to_load)
         /\ run' = Pressed("load_version", 0, <<Message("success", version_to_load)>>,
                           <<>>)
    /\ UNCHANGED <<edit_mode, resume_versions>>
    /\ BuilderFrame

\* lines 194-199: the four buttons of the sidebar
SidebarPages == {"Home", "Resume Builder", "ATS Scanner", "AI Assistant"}
Navigate ==
    /\ \E page_name \in SidebarPages : page' = page_name
    /\ run' = Pressed("navigate", 0, <<>>, <<>>)
    /\ downloads' = NoDownloads
    /\ UNCHANGED <<PDF_EXPORT_SUPPORT, DOCX_SUPPORT, generated_resume, call, errors>>
    /\ UNCHANGED <<PDF_SUPPORT, GROQ_API_KEY, assist_mode, edit_mode, uploaded_resume,
                   chat_vars>>
    /\ UNCHANGED <<builder_vars, other_vars>>

----------------------------------------------------------------------------
(* ATS Scanner (lines 636-800) *)

\* str.find(c) and str.rfind(c) for a one-character c: 0-based index or -1
find(s, c) ==
    LET at == {i \in DOMAIN s : s[i] = c}
    IN IF at = {} THEN -1 ELSE (CHOOSE i \in at : \A j \in at : i <= j) - 1
rfind(s, c) ==
    LET at == {i \in DOMAIN s : s[i] = c}
    IN IF at = {} THEN -1 ELSE (CHOOSE i \in at : \A j \in at : i >= j) - 1

\* s[a:b] for b >= 0; a negative a counts from the end
slice(s, a, b) ==
    LET from == IF a < 0 THEN (IF Len(s) + a < 0 THEN 0 ELSE Len(s) + a) ELSE a
        to == IF b > Len(s) THEN Len(s) ELSE b
    IN IF from >= to THEN <<>> ELSE SubSeq(s, from + 1, to)

\* contents the model can answer an analysis request with
ScoreObject == <<"{", "\"", "s", "c", "o", "r", "e", "\"", ":", " ", "8", "5", "}">>
EmptyObject == <<"{", "}">>
WrappedObject == <<"o", "k", " ">> \o ScoreObject \o <<".">>
NoObject == <<"o", "k">>
BadObject == <<"{", "o", "o", "p", "s", "}">>
Analyses == {WrappedObject, EmptyObject, NoObject, BadObject}

\* the decimal digits in order, and an integer as json.dumps and str write it
DigitChars == <<"0", "1", "2", "3", "4", "5", "6", "7", "8", "9">>
RECURSIVE nat_text(_)
nat_text(n) ==
    IF n < 10 THEN <<DigitChars[n + 1]>>
    ELSE nat_text(n \div 10) \o <<DigitChars[(n % 10) + 1]>>
int_text(n) == IF n < 0 THEN <<"-">> \o nat_text(-n) ELSE nat_text(n)

\* a JSON integer: an optional minus sign, then digits without a leading zero
is_json_int(s) ==
    LET body == IF s # <<>> /\ s[1] = "-" THEN Tail(s) ELSE s
    IN /\ body # <<>>
       /\ \A i \in DOMAIN body : body[i] \in Digits
       /\ Len(body) > 1 => body[1] # "0"
RECURSIVE nat_value(_)
nat_value(s) ==
    IF s = <<>> THEN 0
    ELSE nat_value(SubSeq(s, 1, Len(s) - 1)) * 10
           + (CHOOSE d \in 0..9 : DigitChars[d + 1] = s[Len(s)])
json_int(s) == IF s[1] = "-" THEN -nat_value(Tail(s)) ELSE nat_value(s)

\* an object whose one member is an integer score
ScorePrefix == <<"{", "\"", "s", "c", "o", "r", "e", "\"", ":", " ">>
ScoreDocument(n) == ScorePrefix \o int_text(n) \o <<"}">>

\* json.loads on the documents above: a dict (<<>> for {}), or an exception
json_loads(t) ==
    LET member == SubSeq(t, Len(ScorePrefix) + 1, Len(t) - 1)
    IN IF t = EmptyObject THEN [raised |-> FALSE, result |-> <<>>]
       ELSE IF /\ Len(t) > Len(ScorePrefix) + 1
               /\ SubSeq(t, 1, Len(ScorePrefix)) = ScorePrefix
               /\ t[Len(t)] = "}"
               /\ is_json_int(member)
       THEN [raised |-> FALSE, result |-> [score |-> json_int(member)]]
       ELSE [raised |-> TRUE, result |-> <<>>]

\* lines 719-725: the defaults of result.get
DefaultScore == 75
DefaultKeywordMatch == "60%"

\* a response that does not parse is displayed with the defaults
ats_display_defaults(response_text) ==
    LET parsed == json_loads(slice(response_text, find(response_text, "{"),
                                   rfind(response_text, "}") + 1))
        score == dict_get(parsed.result, "score", DefaultScore)
    IN Analysis(score, DefaultKeywordMatch, "Fair", "#FFA500", response_text)

\* lines 713-798: what one response is displayed as
ats_display(response_text) ==
    LET json_start == find(response_text, "{")
        json_end == rfind(response_text, "}") + 1
        parsed == json_loads(slice(response_text, json_start, json_end))
        score == dict_get(parsed.result, "score", DefaultScore)
        keyword_match == dict_get(parsed.result, "keyword_match", DefaultKeywordMatch)
        suggestions == dict_get(parsed.result, "suggestions", response_text)
        color == IF score >= 80 THEN "#00CC44" ELSE IF score >= 60 THEN "#FFA500"
                 ELSE IF score >= 40 THEN "#FFD700" ELSE "#FF4444"
        labels == <<"Needs Improvement", "Fair", "Good", "Excellent">>
        \* line 725: a list index below zero counts from the end of the list,
        \* and one below minus its length raises IndexError
        index == IF score \div 40 > 3 THEN 3 ELSE score \div 40
        status == labels[(IF index < 0 THEN index + Len(labels) ELSE index) + 1]
    IN IF parsed.raised \/ index < -Len(labels) THEN Info(response_text)
       ELSE Analysis(score, keyword_match, status, color, suggestions)

\* an uploaded file: its MIME type, the text in it, whether reading it fails
UploadedText == <<"c", "v">>
Uploads ==
    {[chosen |-> TRUE, type |-> t, content |-> UploadedText, broken |-> b]
        : t \in {"text/plain", "application/pdf", "docx"}, b \in BOOLEAN}

\* lines 655-667 and 869-882: the text read from the file and the message
\* shown; no branch is taken for a type whose parser is not installed
read_upload(file, success) ==
    LET parsed == \/ file.type = "text/plain"
                  \/ file.type = "application/pdf" /\ PDF_SUPPORT
                  \/ file.type = "docx" /\ DOCX_SUPPORT
    IN IF parsed /\ file.broken
       THEN [raised |-> TRUE, text |-> <<>>,
             messages |-> <<Message("error", "Error reading file")>>]
       ELSE [raised |-> FALSE, text |-> IF parsed THEN file.content ELSE <<>>,
             messages |-> <<Message("success", success)>>]

\* what the three resume sources can hold
PastedText == <<"c", "v", "2">>
ResumeInputs ==
    {[resume_source |-> "Use Generated Resume", file |-> NoFile, pasted |-> <<>>]}
      \cup {[resume_source |-> "Upload File", file |-> f, pasted |-> <<>>]
               : f \in Uploads \cup {NoFile}}
      \cup {[resume_source |-> "Paste Text", file |-> NoFile, pasted |-> t]
               : t \in {<<>>, PastedText}}

\* lines 641-672: resume_to_scan and the messages of its source
resume_to_scan(input) ==
    IF input.resume_source = "Use Generated Resume"
    THEN IF generated_resume = <<>>
         THEN [text |-> <<>>, messages |-> <<Message("warning", "No generated resume found.")>>]
         ELSE [text |-> generated_resume,
               messages |-> <<Message("success", "Using generated resume")>>]
    ELSE IF input.resume_source = "Upload File"
    THEN IF input.file.chosen
         THEN LET r == read_upload(input.file, "File uploaded")
              IN [text |-> r.text, messages |-> r.messages]
         ELSE [text |-> <<>>, messages |-> <<>>]
    ELSE [text |-> input.pasted, messages |-> <<>>]

\* only the first job description is analysed
scan_first_only(source, n, replies) ==
    IF source.text = <<>> \/ n = 0
    THEN Pressed("scan", 0, source.messages \o <<Message("error", "missing")>>, <<>>)
    ELSE Pressed("scan", 1,
                 source.messages
                   \o (IF replies[1].raised THEN <<Message("exception", "invoke")>>
                       ELSE <<>>),
                 IF replies[1].raised THEN <<>> ELSE <<ats_display(replies[1].content)>>)

\* lines 688-800: the press of Scan Resume with n job descriptions filled in;
\* replies[i] is what the model does with the i-th
scan(source, n, replies) ==
    IF source.text = <<>>
    THEN Pressed("scan", 0,
                 source.messages \o <<Message("error", "Please provide a resume!")>>, <<>>)
    ELSE IF n = 0
    THEN Pressed("scan", 0,
                 source.messages
                   \o <<Message("error", "Please provide at least one job description!")>>,
                 <<>>)
    ELSE LET failed == {i \in 1..n : replies[i].raised}
             calls == IF failed = {} THEN n
                      ELSE CHOOSE i \in failed : \A j \in failed : i <= j
             done == IF failed = {} THEN n ELSE calls - 1
         IN Pressed("scan", calls,
                    source.messages
                      \o (IF failed = {} THEN <<>> ELSE <<Message("exception", "invoke")>>),
                    [i \in 1..done |-> ats_display(replies[i].content)])

\* the page as drawn when a file has been put into the uploader (no press)
UploadFile ==
    /\ page = "ATS Scanner"
    /\ has_api_key
    /\ \E file \in Uploads :
         LET source == resume_to_scan([resume_source |-> "Upload File", file |-> file,
                                       pasted |-> <<>>])
         IN run' = [Pressed("upload", 0, source.messages, <<>>)
                      EXCEPT !.text = source.text, !.file = file]
    /\ UNCHANGED <<export_vars, builder_vars, other_vars>>
    /\ UNCHANGED <<PDF_SUPPORT, GROQ_API_KEY, page, assist_mode, edit_mode,
                   uploaded_resume, chat_vars>>

\* line 639 and lines 688-800, for the resume inputs, numbers of job
\* descriptions and response contents given
ScanWith(inputs, jobs, contents) ==
    /\ page = "ATS Scanner"
    /\ IF ~has_api_key
       THEN run' = Pressed("scan", 0,
                           <<Message("error", "Please configure your Groq API key!")>>,
                           <<>>)
       ELSE \E source \in {resume_to_scan(input) : input \in inputs}, n \in jobs :
              \E replies \in IF source.text = <<>> THEN {<<>>}
                              ELSE [1..n -> Replies(contents)] :
                run' = [scan(source, n, replies) EXCEPT !.text = source.text, !.jobs = n]
    /\ UNCHANGED <<export_vars, builder_vars, other_vars>>
    /\ UNCHANGED <<PDF_SUPPORT, GROQ_API_KEY, page, assist_mode, edit_mode,
                   uploaded_resume, chat_vars>>

ScanResume == ScanWith(ResumeInputs, 0..MaxJobs, Analyses)

\* the scan of a pasted resume against one job description, the response an
\* object with an integer score
Scores == -ScoreSpan..ScoreSpan
ScanScores ==
    ScanWith({[resume_source |-> "Paste Text", file |-> NoFile, pasted |-> PastedText]},
             {1}, {ScoreDocument(n) : n \in Scores})

\* the scan of the generated resume against at most one job description
ScanGeneratedResume ==
    ScanWith({[resume_source |-> "Use Generated Resume", file |-> NoFile,
               pasted |-> <<>>]},
             {0, 1}, {NoObject})

----------------------------------------------------------------------------
(* AI Assistant (lines 802-1085) *)

Turn(role, content) == [role |-> role, content |-> content]

\* what the user types, what the model answers
Question == <<"q">>
Answers == {<<"r">>}
\* two of the five question texts of lines 928-934
QuickQuestions == {<<"q", "1">>, <<"q", "2">>}
\* line 1077
FeedbackPrefix ==
    <<"*", "*", "F", "e", "e", "d", "b", "a", "c", "k", ":", "*", "*", " ">>

\* line 805: without a key the page shows this and none of its widgets
KeyRequired(action) ==
    Pressed(action, 0, <<Message("error", "Please configure your Groq API key!")>>, <<>>)

\* the log keeps only the last exchange
exchange_last_only(log, content, reply, role, prefix) ==
    IF reply.raised THEN <<Turn("user", content)>>
    ELSE <<Turn("user", content), Turn(role, prefix \o reply.content)>>

\* the user turn is appended before the call, the answer after it returned
exchange(log, content, reply, role, prefix) ==
    IF reply.raised THEN Append(log, Turn("user", content))
    ELSE log \o <<Turn("user", content), Turn(role, prefix \o reply.content)>>

\* what a press that called the model once displays besides the log
Called(action, reply) ==
    Pressed(action, 1,
            IF reply.raised THEN <<Message("exception", "invoke")>> ELSE <<>>, <<>>)

AssistantFrame ==
    UNCHANGED <<export_vars, builder_vars, other_vars, PDF_SUPPORT, GROQ_API_KEY, page,
                assist_mode, edit_mode>>

\* lines 830-849
SendGeneral ==
    /\ page = "AI Assistant" /\ assist_mode = "General Chat"
    /\ Len(chat_history_general) + 2 <= MaxTurns
    /\ IF ~has_api_key
       THEN run' = KeyRequired("send_general") /\ UNCHANGED chat_history_general
       ELSE \E user_input \in {<<>>, Question} :
              IF user_input = <<>>
              THEN /\ run' = Pressed("send_general", 0, <<>>, <<>>)
                   /\ UNCHANGED chat_history_general
              ELSE \E reply \in Replies(Answers) :
                     /\ chat_history_general' =
                          exchange(chat_history_general, user_input, reply, "assistant", <<>>)
                     /\ run' = Called("send_general", reply)
    /\ UNCHANGED <<chat_history_guidance, chat_history_interview, uploaded_resume>>
    /\ AssistantFrame

\* lines 851-853
ClearGeneral ==
    /\ page = "AI Assistant" /\ assist_mode = "General Chat"
    /\ has_api_key
    /\ chat_history_general # <<>>
    /\ chat_history_general' = <<>>
    /\ run' = Pressed("clear_general", 0, <<>>, <<>>)
    /\ UNCHANGED <<chat_history_guidance, chat_history_interview, uploaded_resume>>
    /\ AssistantFrame

\* lines 858-864
ResumeChoices == {"Generated Resume", "Uploaded Resume"}
selected_resume(resume_choice) ==
    IF resume_choice = "Generated Resume" THEN generated_resume ELSE uploaded_resume

NoResumeFound == Message("warning", "No resume found.")

\* lines 866-887: the uploader is there while no uploaded resume is stored;
\* what was read is stored unless reading raised
UploadForGuidance ==
    /\ page = "AI Assistant" /\ assist_mode = "Resume Guidance"
    /\ has_api_key
    /\ uploaded_resume = <<>>
    /\ \E file \in Uploads :
         LET r == read_upload(file, "File loaded")
         IN /\ uploaded_resume' = IF r.raised THEN uploaded_resume ELSE r.text
            /\ run' = [Pressed("upload_guidance", 0,
                               r.messages
                                 \o (IF r.text = <<>> THEN <<NoResumeFound>>
                                     ELSE <<Message("success", "Resume loaded for guidance")>>),
                               <<>>)
                         EXCEPT !.text = r.text, !.file = file]
    /\ UNCHANGED chat_vars
    /\ AssistantFrame

\* a press in the guidance conversation that sends content to the model
AskGuidance(action, contents) ==
    /\ page = "AI Assistant" /\ assist_mode = "Resume Guidance"
    /\ Len(chat_history_guidance) + 2 <= MaxTurns
    /\ IF ~has_api_key
       THEN run' = KeyRequired(action) /\ UNCHANGED chat_history_guidance
       ELSE \E resume_choice \in ResumeChoices, content \in contents :
              IF selected_resume(resume_choice) = <<>>
              THEN /\ run' = Pressed(action, 0, <<NoResumeFound>>, <<>>)
                   /\ UNCHANGED chat_history_guidance
              ELSE IF content = <<>>
              THEN /\ run' = [Pressed(action, 0, <<>>, <<>>)
                                EXCEPT !.text = selected_resume(resume_choice)]
                   /\ UNCHANGED chat_history_guidance
              ELSE \E reply \in Replies(Answers) :
                     /\ chat_history_guidance' =
                          exchange(chat_history_guidance, content, reply, "assistant", <<>>)
                     /\ run' = [Called(action, reply)
                                  EXCEPT !.text = selected_resume(resume_choice)]
    /\ UNCHANGED <<chat_history_general, chat_history_interview, uploaded_resume>>
    /\ AssistantFrame

\* lines 906-925
SendGuidance == AskGuidance("send_guidance", {<<>>, Question})

\* lines 927-951
QuickAction == AskGuidance("quick_action", QuickQuestions)

\* lines 953-955
ClearGuidance ==
    /\ page = "AI Assistant" /\ assist_mode = "Resume Guidance"
    /\ has_api_key
    /\ \E resume_choice \in ResumeChoices : selected_resume(resume_choice) # <<>>
    /\ chat_history_guidance # <<>>
    /\ chat_history_guidance' = <<>>
    /\ run' = Pressed("clear_guidance", 0, <<>>, <<>>)
    /\ UNCHANGED <<chat_history_general, chat_history_interview, uploaded_resume>>
    /\ AssistantFrame

\* lines 976-987
GenerateQuestions ==
    /\ page = "AI Assistant" /\ assist_mode = "Interview Prep"
    /\ IF ~has_api_key
       THEN run' = KeyRequired("generate_questions")
       ELSE \E reply \in Replies(Answers) :
              run' = [Called("generate_questions", reply)
                        EXCEPT !.results = IF reply.raised THEN <<>>
                                           ELSE <<Info(reply.content)>>]
    /\ UNCHANGED <<chat_vars, uploaded_resume>>
    /\ AssistantFrame

\* lines 1039-1055
GetInterviewQuestion ==
    /\ page = "AI Assistant" /\ assist_mode = "Interview Prep"
    /\ Len(chat_history_interview) + 1 <= MaxTurns
    /\ IF ~has_api_key
       THEN run' = KeyRequired("get_question") /\ UNCHANGED chat_history_interview
       ELSE \E reply \in Replies(Answers) :
              /\ chat_history_interview' =
                   IF reply.raised THEN chat_history_interview
                   ELSE Append(chat_history_interview, Turn("interviewer", reply.content))
              /\ run' = Called("get_question", reply)
    /\ UNCHANGED <<chat_history_general, chat_history_guidance, uploaded_resume>>
    /\ AssistantFrame

\* lines 1057-1081: the answer box is there after an interviewer turn
SubmitAnswer ==
    /\ page = "AI Assistant" /\ assist_mode = "Interview Prep"
    /\ has_api_key
    /\ chat_history_interview # <<>>
    /\ chat_history_interview[Len(chat_history_interview)].role = "interviewer"
    /\ Len(chat_history_interview) + 2 <= MaxTurns
    /\ \E user_answer \in {<<" ">>, <<"a">>} :
         IF strip(user_answer) = <<>>
         THEN /\ run' = Pressed("submit_answer", 0,
                                <<Message("error",
                                          "Please provide an answer before submitting.")>>,
                                <<>>)
              /\ UNCHANGED chat_history_interview
         ELSE \E reply \in Replies(Answers) :
                /\ chat_history_interview' =
                     exchange(chat_history_interview, user_answer, reply, "interviewer",
                              FeedbackPrefix)
                /\ run' = Called("submit_answer", reply)
    /\ UNCHANGED <<chat_history_general, chat_history_guidance, uploaded_resume>>
    /\ AssistantFrame

\* lines 1083-1085
ClearInterview ==
    /\ page = "AI Assistant" /\ assist_mode = "Interview Prep"
    /\ has_api_key
    /\ chat_history_interview # <<>>
    /\ chat_history_interview' = <<>>
    /\ run' = Pressed("clear_interview", 0, <<>>, <<>>)
    /\ UNCHANGED <<chat_history_general, chat_history_guidance, uploaded_resume>>
    /\ AssistantFrame

----------------------------------------------------------------------------
(* A second session of the same process.  It runs the same script on its   *)
(* own st.session_state; os.environ belongs to the process.                *)

PeerFrame ==
    UNCHANGED <<export_vars, builder_vars, PDF_SUPPORT, page, assist_mode, edit_mode,
                uploaded_resume, chat_vars, run, statistics, reclassified>>

\* lines 179-189, run by the second session
PeerEnterApiKey ==
    /\ ~has_api_key
    /\ GROQ_API_KEY' = "k"
    /\ peer' = [peer EXCEPT !.entered_key = TRUE]
    /\ PeerFrame

\* lines 830-849, run by the second session
PeerSendGeneral ==
    /\ has_api_key
    /\ Len(peer.chat_history_general) + 2 <= MaxTurns
    /\ \E reply \in Replies(Answers) :
         peer' = [peer EXCEPT !.chat_history_general =
                                 exchange(@, Question, reply, "assistant", <<>>)]
    /\ UNCHANGED GROQ_API_KEY
    /\ PeerFrame

\* lines 851-853, run by the second session
PeerClearGeneral ==
    /\ has_api_key
    /\ peer.chat_history_general # <<>>
    /\ peer' = [peer EXCEPT !.chat_history_general = <<>>]
    /\ UNCHANGED GROQ_API_KEY
    /\ PeerFrame

----------------------------------------------------------------------------
(* Specifications *)

NoSave == [section |-> "none", form |-> <<>>]

\* lines 65-93 and 13-15, 47-62: the session as the first run of the script
\* leaves it, every parser installed and a key in the environment
InitSession ==
    /\ PDF_SUPPORT = TRUE
    /\ GROQ_API_KEY = "k"
    /\ assist_mode = "General Chat"
    /\ edit_mode = FALSE
    /\ uploaded_resume = <<>>
    /\ chat_history_general = <<>>
    /\ chat_history_guidance = <<>>
    /\ chat_history_interview = <<>>
    /\ run = NoRun

\* lines 65-93 for the second session: what of its state the model follows
NoPeer == [entered_key |-> FALSE, chat_history_general |-> <<>>]
NoStatistics ==
    [shown |-> FALSE, word_count |-> 0, line_count |-> 0, action_verbs |-> 0,
     metrics_count |-> 0]
NoLine ==
    [done |-> FALSE, line |-> <<>>, index |-> 0, lowered |-> <<>>,
     pdf_heading |-> FALSE, docx_heading |-> FALSE]

InitOther ==
    /\ peer = NoPeer
    /\ statistics = NoStatistics
    /\ reclassified = NoLine

\* a record the section saves can have stored: every section saved once,
\* each entries section with one entry
FilledResumeData ==
    [personal_info |-> [name |-> AnnLee, email |-> "e", phone |-> "",
                        linkedin |-> "", github |-> "", portfolio |-> "",
                        target_role |-> "r", summary |-> ""],
     education |-> <<[degree |-> "y", institution |-> "z", year |-> "", gpa |-> ""]>>,
     certifications |-> <<[name |-> "y", organization |-> "z", date |-> ""]>>,
     experience |-> <<[title |-> "y", company |-> "z", duration |-> "",
                       description |-> ""]>>,
     projects |-> <<[title |-> "y", link |-> "", technologies |-> "z",
                     achievements |-> ""]>>,
     skills |-> <<[category |-> "y", items |-> "z"]>>]

\* the Resume Builder page with both encoders installed and no resume
\* generated yet, the record as the script first leaves it (lines 65-73) or
\* as earlier saves left it
InitBuilder ==
    /\ PDF_EXPORT_SUPPORT = TRUE
    /\ DOCX_SUPPORT = TRUE
    /\ generated_resume = <<>>
    /\ call = NoCall
    /\ downloads = NoDownloads
    /\ errors = <<>>
    /\ resume_data \in {EmptyResumeData, FilledResumeData}
    /\ last_save = NoSave
    /\ nsaves = 0
    /\ resume_versions = <<>>
    /\ page = "Resume Builder"
    /\ InitSession
    /\ InitOther

NextBuilder ==
    \/ SavePersonalInfo
    \/ SaveEducation
    \/ SaveCertifications
    \/ SaveWorkExperience
    \/ SaveProjects
    \/ SaveSkills
    \/ TypeInForm

SpecBuilder == InitBuilder /\ [][NextBuilder]_vars

\* The session on one page.  The libraries and the key are as the process
\* found them (a library no handler of the page uses is taken as installed);
\* the record and the resume are as the script first leaves them
\* or as earlier saves and a generation left them (a resume is generated only
\* with a key and a saved name).
Pages == {"Resume Builder", "ATS Scanner", "AI Assistant"}
Modes == {"General Chat", "Resume Guidance", "Interview Prep"}

Init ==
    /\ page \in Pages
    /\ PDF_EXPORT_SUPPORT \in IF page = "Resume Builder" THEN BOOLEAN ELSE {TRUE}
    /\ PDF_SUPPORT \in IF page = "Resume Builder" THEN {TRUE} ELSE BOOLEAN
    /\ DOCX_SUPPORT \in BOOLEAN
    /\ GROQ_API_KEY \in {"", "k"}
    /\ assist_mode \in IF page = "AI Assistant" THEN Modes ELSE {"General Chat"}
    /\ resume_data \in {EmptyResumeData, FilledResumeData}
    /\ generated_resume \in
          IF has_api_key /\ resume_data = FilledResumeData
          THEN {<<>>} \cup Responses ELSE {<<>>}
    /\ call = NoCall
    /\ downloads = NoDownloads
    /\ errors = <<>>
    /\ last_save = NoSave
    /\ nsaves = 0
    /\ resume_versions = <<>>
    /\ edit_mode = FALSE
    /\ uploaded_resume = <<>>
    /\ chat_history_general = <<>>
    /\ chat_history_guidance = <<>>
    /\ chat_history_interview = <<>>
    /\ run = NoRun
    /\ InitOther

Next ==
    \/ EnterApiKey
    \/ SavePersonalInfo
    \/ GenerateResume
    \/ AIReview
    \/ DownloadSection
    \/ UploadFile
    \/ ScanResume
    \/ SendGeneral
    \/ ClearGeneral
    \/ UploadForGuidance
    \/ SendGuidance
    \/ QuickAction
    \/ ClearGuidance
    \/ GenerateQuestions
    \/ GetInterviewQuestion
    \/ SubmitAnswer
    \/ ClearInterview

Spec == Init /\ [][Next]_vars

\* two sessions of one process: the first with its key field, Generate Resume
\* and its general conversation, the second with its key field and its
\* general conversation
NextSessions ==
    \/ EnterApiKey
    \/ GenerateResume
    \/ SendGeneral
    \/ ClearGeneral
    \/ PeerEnterApiKey
    \/ PeerSendGeneral
    \/ PeerClearGeneral

SpecSessions == Init /\ [][NextSessions]_vars

\* the session from its first run (lines 65-93) on the Resume Builder page,
\* with or without a key, the record empty or as earlier saves left it: the
\* resume, its versions and edit mode, with the sidebar
InitResume ==
    /\ PDF_EXPORT_SUPPORT = TRUE
    /\ DOCX_SUPPORT = TRUE
    /\ PDF_SUPPORT = TRUE
    /\ GROQ_API_KEY \in {"", "k"}
    /\ page = "Resume Builder"
    /\ assist_mode = "General Chat"
    /\ resume_data \in {EmptyResumeData, FilledResumeData}
    /\ generated_resume = <<>>
    /\ call = NoCall
    /\ downloads = NoDownloads
    /\ errors = <<>>
    /\ last_save = NoSave
    /\ nsaves = 0
    /\ resume_versions = <<>>
    /\ edit_mode = FALSE
    /\ uploaded_resume = <<>>
    /\ chat_history_general = <<>>
    /\ chat_history_guidance = <<>>
    /\ chat_history_interview = <<>>
    /\ run = NoRun
    /\ InitOther

NextResume ==
    \/ SavePersonalInfo
    \/ GenerateResume
    \/ AIReview
    \/ SaveVersion
    \/ ToggleEdit
    \/ SaveChanges
    \/ LoadSelectedVersion
    \/ Navigate
    \/ ScanGeneratedResume

SpecResume == InitResume /\ [][NextResume]_vars

\* the ATS Scanner page, a key configured: scans answered with a score
InitScores ==
    /\ PDF_EXPORT_SUPPORT = TRUE
    /\ DOCX_SUPPORT = TRUE
    /\ generated_resume = <<>>
    /\ call = NoCall
    /\ downloads = NoDownloads
    /\ errors = <<>>
    /\ resume_data = EmptyResumeData
    /\ last_save = NoSave
    /\ nsaves = 0
    /\ resume_versions = <<>>
    /\ page = "ATS Scanner"
    /\ InitSession
    /\ InitOther

NextScores == ScanScores

SpecScores == InitScores /\ [][NextScores]_vars

\* the statistics and the downloads of every text of StatTexts, both encoders
\* installed
InitStats ==
    /\ PDF_EXPORT_SUPPORT = TRUE
    /\ DOCX_SUPPORT = TRUE
    /\ generated_resume \in StatTexts
    /\ call = NoCall
    /\ downloads = NoDownloads
    /\ errors = <<>>
    /\ resume_data = FilledResumeData
    /\ last_save = NoSave
    /\ nsaves = 0
    /\ resume_versions = <<>>
    /\ page = "Resume Builder"
    /\ InitSession
    /\ InitOther

NextStats ==
    \/ ResumeStatistics
    \/ DownloadSection

SpecStats == InitStats /\ [][NextStats]_vars

\* the heading test on the heading lines of every text of Texts
InitHeading ==
    /\ PDF_EXPORT_SUPPORT = TRUE
    /\ DOCX_SUPPORT = TRUE
    /\ generated_resume \in Texts
    /\ call = NoCall
    /\ downloads = NoDownloads
    /\ errors = <<>>
    /\ resume_data = FilledResumeData
    /\ last_save = NoSave
    /\ nsaves = 0
    /\ resume_versions = <<>>
    /\ page = "Resume Builder"
    /\ InitSession
    /\ InitOther

NextHeading == Reclassify

SpecHeading == InitHeading /\ [][NextHeading]_vars

\* the export functions on every text of Texts, with each encoder there or not
InitExport ==
    /\ PDF_EXPORT_SUPPORT \in BOOLEAN
    /\ DOCX_SUPPORT \in BOOLEAN
    /\ generated_resume \in Texts
    /\ call = NoCall
    /\ downloads = NoDownloads
    /\ errors = <<>>
    /\ resume_data = EmptyResumeData
    /\ last_save = NoSave
    /\ nsaves = 0
    /\ resume_versions = <<>>
    /\ page = "Resume Builder"
    /\ InitSession
    /\ InitOther

NextExport ==
    \/ CallExportToPdf
    \/ CallExportToDocx
    \/ DownloadSection

SpecExport == InitExport /\ [][NextExport]_vars

----------------------------------------------------------------------------
(* What the claims speak of *)

StartsWith(m, prefix) ==
    Len(m) >= Len(prefix) /\ SubSeq(m, 1, Len(prefix)) = prefix
EndsWith(m, suffix) ==
    Len(m) >= Len(suffix) /\ SubSeq(m, Len(m) - Len(suffix) + 1, Len(m)) = suffix

BoldOpen == <<"<", "b", ">">>
BoldClose == <<"<", "/", "b", ">">>

\* the input lines of the current text
InputLines == split_on(generated_resume, "\n")

\* the class the heading rule gives an input line
LineClass(raw) ==
    LET t == strip(raw) IN
    IF t = <<>> THEN "spacer"
    ELSE IF isupper(t) /\ Len(split(t)) <= 8 THEN "heading"
    ELSE "body"

\* the class an element of the PDF story shows
PdfClass(f) ==
    IF f.kind = "Spacer" THEN "spacer"
    ELSE IF StartsWith(f.markup, BoldOpen) THEN "heading"
    ELSE "body"

\* the class a paragraph of the DOCX document shows
DocxClass(q) ==
    IF q.text = <<>> THEN "spacer"
    ELSE IF q.bold THEN "heading"
    ELSE "body"

\* every PDF and every DOCX document the state holds
PdfDocs ==
    {d.body : d \in {x \in {call.data, downloads.pdf} : x.bytes /\ x.format = "pdf"}}
DocxDocs ==
    {d.body : d \in {x \in {call.data, downloads.docx} : x.bytes /\ x.format = "docx"}}

\* the paragraph markup with the heading rule's bold tags taken off
Inner(f) ==
    IF StartsWith(f.markup, BoldOpen) /\ EndsWith(f.markup, BoldClose)
    THEN SubSeq(f.markup, 4, Len(f.markup) - 4)
    ELSE f.markup

\* the text a markup shows: each entity read back once, left to right
RECURSIVE Shown(_)
Shown(m) ==
    IF m = <<>> THEN <<>>
    ELSE IF StartsWith(m, AMP) THEN <<"&">> \o Shown(SubSeq(m, 6, Len(m)))
    ELSE IF StartsWith(m, LT) THEN <<"<">> \o Shown(SubSeq(m, 5, Len(m)))
    ELSE IF StartsWith(m, GT) THEN <<">">> \o Shown(SubSeq(m, 5, Len(m)))
    ELSE <<Head(m)>> \o Shown(Tail(m))

Count(m, c) == Cardinality({i \in DOMAIN m : m[i] = c})

\* the non-empty lines of the text, trimmed, in order
NonEmptyLines ==
    SelectSeq([i \in DOMAIN InputLines |-> strip(InputLines[i])], LAMBDA l : l # <<>>)

\* the non-empty lines a document renders, in order
PdfRendered(body) ==
    SelectSeq([i \in DOMAIN body |-> Shown(Inner(body[i]))], LAMBDA l : l # <<>>)
DocxRendered(body) ==
    SelectSeq([i \in DOMAIN body |-> body[i].text], LAMBDA l : l # <<>>)

BothExported == downloads.shown /\ downloads.pdf.bytes /\ downloads.docx.bytes

----------------------------------------------------------------------------
(* Claims *)

\* C1: both exporters give every input line, line 0 included, the class of the
\* heading rule: heading iff trimmed it is non-empty, upper-case and of at
\* most 8 words; body if non-empty and no heading; spacer if empty.
C1_SameClassification ==
    /\ \A body \in PdfDocs :
         /\ Len(body) = Len(InputLines)
         /\ \A i \in DOMAIN body : PdfClass(body[i]) = LineClass(InputLines[i])
    /\ \A body \in DocxDocs :
         /\ Len(body) = Len(InputLines)
         /\ \A i \in DOMAIN body : DocxClass(body[i]) = LineClass(InputLines[i])

\* both documents exported from a text whose line 0 is a heading of exactly
\* eight words and which has a body line too
C1_Witness ==
    /\ BothExported
    /\ Len(InputLines) >= 2
    /\ LineClass(InputLines[1]) = "heading"
    /\ Len(split(InputLines[1])) = 8
    /\ \E i \in DOMAIN InputLines : LineClass(InputLines[i]) = "body"

\* C2: a formatted export renders exactly the non-empty (after trimming)
\* lines of the text, as many and in the same order.
C2_NonEmptyLinesKept ==
    /\ \A body \in PdfDocs : PdfRendered(body) = NonEmptyLines
    /\ \A body \in DocxDocs : DocxRendered(body) = NonEmptyLines

\* both documents exported from a text whose first two non-empty lines differ,
\* the first a heading
C2_Witness ==
    /\ BothExported
    /\ Len(NonEmptyLines) >= 2
    /\ NonEmptyLines[1] # NonEmptyLines[2]
    /\ LineClass(NonEmptyLines[1]) = "heading"

\* C3: in the PDF markup every '&', '<' and '>' of a line is escaped exactly
\* once, no '<' of the input reaches the markup, and "<b>" is there only as
\* the heading rule's tag.
C3_EscapedOnce ==
    \A body \in PdfDocs : \A i \in DOMAIN body :
        body[i].kind = "Paragraph" =>
            LET line == strip(InputLines[i])
                inner == Inner(body[i])
            IN /\ Shown(inner) = line
               /\ Len(inner) = Len(line) + 4 * Count(line, "&")
                                 + 3 * Count(line, "<") + 3 * Count(line, ">")
               /\ Count(inner, "<") = 0 /\ Count(inner, ">") = 0
               /\ StartsWith(body[i].markup, BoldOpen)
                    <=> (LineClass(InputLines[i]) = "heading")

\* a PDF exported from a text that holds "<b>" and an '&'
C3_Witness ==
    /\ downloads.shown /\ downloads.pdf.bytes
    /\ \E i \in DOMAIN generated_resume : generated_resume[i] = "<"
    /\ \E i \in DOMAIN generated_resume : generated_resume[i] = "&"

IsBlank(t) == \A i \in DOMAIN t : t[i] \in SpaceChars

\* the documents the download section offers
OfferedPdf == IF downloads.pdf.bytes THEN {downloads.pdf.body} ELSE {}
OfferedDocx == IF downloads.docx.bytes THEN {downloads.docx.body} ELSE {}

\* C4 as claimed: for an empty or blank text the export functions signal a
\* failure and return no byte sequence.
C4_BlankInputFails ==
    (downloads.shown /\ IsBlank(generated_resume)) =>
        ~downloads.pdf.bytes /\ ~downloads.docx.bytes

\* C4 as amended: for an empty or blank text the export functions signal no
\* failure of their own: each returns a byte sequence exactly when its encoder
\* is installed and no assembly step fails, no message is shown otherwise, and
\* the document holds one spacer element per input line and no text.
C4_BlankInputExported ==
    IsBlank(generated_resume) =>
        /\ call.fn = "export_to_pdf" =>
             /\ call.data.bytes <=> (PDF_EXPORT_SUPPORT /\ ~call.fault)
             /\ ~call.fault => errors = <<>>
        /\ call.fn = "export_to_docx" =>
             /\ call.data.bytes <=> (DOCX_SUPPORT /\ ~call.fault)
             /\ ~call.fault => errors = <<>>
        /\ downloads.shown =>
             /\ downloads.pdf.bytes <=> (PDF_EXPORT_SUPPORT /\ ~downloads.pdf_fault)
             /\ downloads.docx.bytes <=> (DOCX_SUPPORT /\ ~downloads.docx_fault)
             /\ (~downloads.pdf_fault /\ ~downloads.docx_fault) => errors = <<>>
        /\ \A body \in PdfDocs :
             /\ Len(body) = Len(InputLines)
             /\ \A i \in DOMAIN body : body[i].kind = "Spacer"
        /\ \A body \in DocxDocs :
             /\ Len(body) = Len(InputLines)
             /\ \A i \in DOMAIN body : body[i].text = <<>>

\* the download section run on a blank text of two lines, both documents offered
C4_Witness ==
    /\ BothExported
    /\ IsBlank(generated_resume)
    /\ Len(InputLines) = 2

\* C5: with an encoder not installed its export returns no bytes and raises
\* nothing, and the text download and the other export are as they are with
\* it installed.
C5_UnsupportedIsolated ==
    /\ (call.fn = "export_to_pdf" /\ ~PDF_EXPORT_SUPPORT) =>
          call.data = None /\ ~call.raised
    /\ (call.fn = "export_to_docx" /\ ~DOCX_SUPPORT) =>
          call.data = None /\ ~call.raised
    /\ (downloads.shown /\ ~PDF_EXPORT_SUPPORT) =>
          /\ downloads.pdf = None
          /\ downloads.txt = generated_resume
          /\ (DOCX_SUPPORT /\ ~downloads.docx_fault) =>
                downloads.docx = Bytes("docx", docx_document(generated_resume))
    /\ (downloads.shown /\ ~DOCX_SUPPORT) =>
          /\ downloads.docx = None
          /\ downloads.txt = generated_resume
          /\ (PDF_EXPORT_SUPPORT /\ ~downloads.pdf_fault) =>
                downloads.pdf = Bytes("pdf", pdf_story(generated_resume))

\* the download section run without the PDF encoder: text and DOCX offered
C5_Witness ==
    /\ downloads.shown /\ ~PDF_EXPORT_SUPPORT
    /\ downloads.docx.bytes /\ ~downloads.pdf.bytes
    /\ Len(NonEmptyLines) >= 1

\* C6: when a step of document assembly fails, the function shows an error
\* naming its encoding, raises nothing and returns no bytes.
C6_FailureContained ==
    /\ (call.fn = "export_to_pdf" /\ call.fault) =>
          call.data = None /\ ~call.raised /\ errors = <<"PDF Error">>
    /\ (call.fn = "export_to_docx" /\ call.fault) =>
          call.data = None /\ ~call.raised /\ errors = <<"DOCX Error">>
    /\ (downloads.shown /\ downloads.pdf_fault) =>
          downloads.pdf = None /\ ~downloads.raised /\ "PDF Error" \in Range(errors)
    /\ (downloads.shown /\ downloads.docx_fault) =>
          downloads.docx = None /\ ~downloads.raised /\ "DOCX Error" \in Range(errors)
    /\ (downloads.shown /\ ~downloads.pdf_fault) => "PDF Error" \notin Range(errors)
    /\ (downloads.shown /\ ~downloads.docx_fault) => "DOCX Error" \notin Range(errors)

\* the download section run with the PDF assembly failing and the DOCX one not
C6_Witness ==
    /\ downloads.shown /\ downloads.pdf_fault /\ ~downloads.docx_fault
    /\ downloads.docx.bytes
    /\ Len(NonEmptyLines) >= 1

\* C7 as claimed: in both encodings a spacer line gives a fixed gap only, and
\* the document holds no empty paragraph.
C7_SpacerNeverParagraph ==
    downloads.shown =>
        /\ \A body \in OfferedPdf : \A i \in DOMAIN body :
              /\ LineClass(InputLines[i]) = "spacer" => body[i].kind = "Spacer"
              /\ body[i].kind = "Paragraph" => body[i].markup # <<>>
        /\ \A body \in OfferedDocx : \A i \in DOMAIN body : body[i].text # <<>>

\* C7 as amended: in the PDF a spacer line gives a Spacer of 0.05 inch and no
\* paragraph; in the DOCX a spacer line gives an empty paragraph, with no text
\* and no run formatted, and no other gap.
C7_SpacerPerEncoding ==
    /\ \A body \in PdfDocs : \A i \in DOMAIN body :
          /\ LineClass(InputLines[i]) = "spacer" =>
                body[i].kind = "Spacer" /\ body[i].height = 5
          /\ body[i].kind = "Paragraph" => body[i].markup # <<>>
    /\ \A body \in DocxDocs : \A i \in DOMAIN body :
          LineClass(InputLines[i]) = "spacer" =>
              body[i] = [text |-> <<>>, bold |-> FALSE, size |-> 0]

\* both documents exported from a text with a spacer line and a line of text
C7_Witness ==
    /\ BothExported
    /\ \E i \in DOMAIN InputLines : LineClass(InputLines[i]) = "spacer"
    /\ Len(NonEmptyLines) >= 1

\* bold and font size of an element of the PDF story: the paragraph style
\* gives the size, the <b> tag the weight
PdfBold(f) == StartsWith(f.markup, BoldOpen)
PdfSize(f) == IF f.style = "Normal" THEN NormalFontSize ELSE 0

\* C8 as claimed: in both encodings a heading line is bold and strictly larger
\* than a body line, and a body line is not bold.
C8_HeadingBoldAndLarger ==
    downloads.shown =>
        /\ \A body \in OfferedPdf : \A i \in DOMAIN body, j \in DOMAIN body :
              (LineClass(InputLines[i]) = "heading" /\ LineClass(InputLines[j]) = "body") =>
                  /\ PdfBold(body[i]) /\ ~PdfBold(body[j])
                  /\ PdfSize(body[i]) > PdfSize(body[j])
        /\ \A body \in OfferedDocx : \A i \in DOMAIN body, j \in DOMAIN body :
              (LineClass(InputLines[i]) = "heading" /\ LineClass(InputLines[j]) = "body") =>
                  /\ body[i].bold /\ ~body[j].bold
                  /\ body[i].size > body[j].size

\* C9: the data of the TXT download is the generated resume itself.
C9_TxtIsIdentity == downloads.shown => downloads.txt = generated_resume

\* the downloads shown for a text that trimming would change
C9_Witness ==
    /\ downloads.shown
    /\ strip(generated_resume) # generated_resume
    /\ Len(NonEmptyLines) >= 1

\* the two key fields of each entries section
SectionKeys ==
    [education |-> <<"degree", "institution">>,
     certifications |-> <<"name", "organization">>,
     experience |-> <<"title", "company">>,
     projects |-> <<"title", "technologies">>,
     skills |-> <<"category", "items">>]

\* the indices of the form entries whose two key fields are both non-empty
KeptIndices(form, keys) ==
    {i \in DOMAIN form : form[i][keys[1]] # "" /\ form[i][keys[2]] # ""}

\* the n-th smallest element of a set of indices
Nth(S, n) == CHOOSE i \in S : Cardinality({m \in S : m <= i}) = n

\* C10: after the Save of an entries section the stored sequence is the
\* subsequence of the form entries whose two key fields are both non-empty,
\* in the form's order.
C10_SaveKeepsComplete ==
    last_save.section \in DOMAIN SectionKeys =>
        LET stored == resume_data[last_save.section]
            kept == KeptIndices(last_save.form, SectionKeys[last_save.section])
        IN /\ Len(stored) = Cardinality(kept)
           /\ \A n \in 1..Len(stored) : stored[n] = last_save.form[Nth(kept, n)]

\* Save Education over a stored entry, from a form whose entry 0 lacks the
\* degree and whose entry 1 is complete
C10_Witness ==
    /\ last_save.section = "education"
    /\ Len(last_save.form) = 2
    /\ last_save.form[1].degree = "" /\ last_save.form[2].degree = "x"
    /\ resume_data.education = <<last_save.form[2]>>
    /\ resume_data.skills = FilledResumeData.skills

\* the saved personal information, field by field ('' where none is saved)
PersonalField(key) ==
    dict_get(resume_data.personal_info, key, IF key = "name" THEN <<>> ELSE "")

\* C11: Generate Resume calls the model only when the saved personal
\* information has a non-empty name, a non-empty email and a non-empty target
\* role.
C11_GenerateNeedsNameEmailRole ==
    (run.action = "generate" /\ run.calls > 0) =>
        /\ PersonalField("name") # <<>>
        /\ PersonalField("email") # ""
        /\ PersonalField("target_role") # ""

KeyMessage == Message("error", "Please configure your Groq API key!")

\* C12: while no API key is configured no press of any button calls the
\* model; with a key configured, entered at runtime or found at start, no
\* press is refused for want of a key.
C12_NoKeyNoModelCall ==
    /\ GROQ_API_KEY = "" => run.calls = 0
    /\ GROQ_API_KEY # "" => KeyMessage \notin Range(run.messages)

\* Generate Resume pressed without a key, over a complete record: refused
C12_Witness ==
    /\ GROQ_API_KEY = ""
    /\ resume_data = FilledResumeData
    /\ run.action = "generate" /\ run.calls = 0
    /\ run.messages = <<KeyMessage>>

InvokeRaised == Message("exception", "invoke") \in Range(run.messages)

IsPrefix(log, longer) ==
    Len(log) <= Len(longer) /\ SubSeq(longer, 1, Len(log)) = log

\* a step appends to the log or is the press of its Clear button
AppendsOrClears(log, next_log, clear, next_run) ==
    IsPrefix(log, next_log) \/ (next_log = <<>> /\ next_run.action = clear)

\* C14: every step leaves each of the three conversation logs with its
\* earlier turns unchanged at the front (turns are only appended), or empties
\* it on the press of that log's Clear button.
C14_LogsAppendOrClear ==
    [][/\ AppendsOrClears(chat_history_general, chat_history_general',
                          "clear_general", run')
       /\ AppendsOrClears(chat_history_guidance, chat_history_guidance',
                          "clear_guidance", run')
       /\ AppendsOrClears(chat_history_interview, chat_history_interview',
                          "clear_interview", run')]_vars

\* a second exchange appended to the general conversation
C14_Witness ==
    /\ run.action = "send_general" /\ run.calls = 1
    /\ Len(chat_history_general) = 4
    /\ chat_history_general[3].role = "user"
    /\ chat_history_general[4].role = "assistant"

\* the responses of the model that hold no JSON object, or braces around
\* text that is not JSON
Unparsable == {NoObject, BadObject}

Observable ==
    <<generated_resume, resume_data, edit_mode, page, uploaded_resume,
      chat_history_general, chat_history_guidance, chat_history_interview,
      run, downloads, has_api_key>>

\* C16: a step of the second session changes nothing the first session can
\* observe, whether a key is configured for it included.
C16_SessionsIsolated == [][peer' # peer => Observable' = Observable]_vars

\* the type of the file needs a parser that is not installed
Unsupported(file) ==
    \/ file.type = "application/pdf" /\ ~PDF_SUPPORT
    \/ file.type = "docx" /\ ~DOCX_SUPPORT

UploadRuns == {"upload", "upload_guidance"}
MessageKinds == {run.messages[i].kind : i \in DOMAIN run.messages}

\* C17: an uploaded file of a type whose parser is not installed, or one
\* that cannot be read, gives an error message and no success message, and
\* leaves the text to scan and uploaded_resume empty as they were.
C17_UnreadableUploadIsError ==
    (run.action \in UploadRuns /\ (Unsupported(run.file) \/ run.file.broken)) =>
        /\ "error" \in MessageKinds
        /\ "success" \notin MessageKinds
        /\ run.text = <<>>
        /\ uploaded_resume = <<>>

Placeholder == <<"r", "e", "s", "u", "m", "e">>

\* C18: the file name base of the downloads is the saved name with its
\* blanks replaced by underscores, and the placeholder 'resume' whenever no
\* name is saved or the saved name is empty.
C18_FileNameBase ==
    downloads.shown =>
        downloads.file_name_base =
            IF PersonalField("name") = <<>> THEN Placeholder
            ELSE replace(PersonalField("name"), " ", <<"_">>)

\* the verb occurs somewhere in the lower-cased text
Occurs(verb, text) ==
    LET t == lower(text)
    IN \E i \in DOMAIN t :
         /\ i + Len(verb) - 1 <= Len(t)
         /\ \A k \in DOMAIN verb : t[i + k - 1] = verb[k]

JohnSmith == SubSeq(Scenario, 1, 10)

\* C19: the action-verb count is the number of the six verbs that occur in
\* the lower-cased text (0 to 6), the metrics count is the number of digit
\* characters, the line count is the number of newline-delimited segments,
\* empty ones included; for the text "JOHN SMITH\n\nSoftware Engineer\n
\* Developed 3 systems." the counts are 1 verb and 1 digit, and its exports
\* have the one heading JOHN SMITH and one spacer.
C19_Statistics ==
    /\ statistics.shown =>
          /\ statistics.action_verbs =
                Cardinality({k \in 1..6 : Occurs(ActionVerbs[k], generated_resume)})
          /\ statistics.action_verbs \in 0..6
          /\ statistics.metrics_count =
                Len(SelectSeq(generated_resume, LAMBDA c : c \in Digits))
          /\ statistics.line_count = Count(generated_resume, "\n") + 1
          /\ generated_resume = Scenario =>
                /\ statistics.action_verbs = 1
                /\ statistics.metrics_count = 1
                /\ statistics.line_count = 4
    /\ (downloads.shown /\ generated_resume = Scenario) =>
          /\ \A body \in PdfDocs :
                /\ {Shown(Inner(body[i])) : i \in {n \in DOMAIN body :
                                                     PdfClass(body[n]) = "heading"}}
                     = {JohnSmith}
                /\ Cardinality({n \in DOMAIN body : PdfClass(body[n]) = "spacer"}) = 1
          /\ \A body \in DocxDocs :
                /\ {body[i].text : i \in {n \in DOMAIN body :
                                            DocxClass(body[n]) = "heading"}}
                     = {JohnSmith}
                /\ Cardinality({n \in DOMAIN body : DocxClass(body[n]) = "spacer"}) = 1

\* the statistics and both exports of the example text
C19_Witness ==
    /\ generated_resume = Scenario
    /\ statistics.shown /\ statistics.action_verbs = 1
    /\ BothExported

\* C20: a heading line with any single character replaced by its lower-case
\* form is classified as non-heading.
C20_LoweredIsNoHeading ==
    reclassified.done => ~reclassified.pdf_heading /\ ~reclassified.docx_heading

\* C20, as the code has it: a heading line with one of its upper-case letters
\* replaced by the lower-case letter is classified as non-heading by both
\* exporters; the lower-case form of any other character (digit, blank,
\* punctuation) is the character itself, and the line stays a heading.
C20_LoweredLetterIsNoHeading ==
    reclassified.done =>
        /\ reclassified.pdf_heading = reclassified.docx_heading
        /\ reclassified.line[reclassified.index] \in UpperChars
              => ~reclassified.pdf_heading
        /\ reclassified.line[reclassified.index] \notin UpperChars
              => reclassified.pdf_heading /\ reclassified.lowered = reclassified.line

\* one letter of a heading of two letters lower-cased
C20_Witness ==
    /\ reclassified.done
    /\ reclassified.line = <<"A", "A">> /\ reclassified.index = 2
    /\ reclassified.lowered = <<"A", "a">>
    /\ ~reclassified.pdf_heading /\ ~reclassified.docx_heading

----------------------------------------------------------------------------
(* The resume, its versions and edit mode *)

\* the press was a Generate Resume whose call returned
Generated(r) == r.action = "generate" /\ r.calls = 1 /\ r.messages = <<>>

\* what a step may do to the generated resume
ResumeStep ==
    /\ (generated_resume' # generated_resume) =>
         (\/ Generated(run')
          \/ run'.action = "save_changes" /\ edit_mode
          \/ run'.action = "load_version")
    /\ (run'.action = "generate") =>
         (generated_resume' = IF Generated(run') THEN run'.text ELSE generated_resume)
    /\ (run'.action = "save_changes") => (generated_resume' = run'.text)
    /\ (run'.action = "load_version") =>
         (\E i \in DOMAIN resume_versions :
            /\ resume_versions[i].key = run'.messages[1].text
            /\ generated_resume' = resume_versions[i].value)

\* C21: the generated resume changes only by three presses: a Generate
\* Resume whose call returned sets it to the response's text, Save Changes
\* sets it to the text of the edit area, Load Selected Version sets it to the
\* snapshot stored under the selected label and to nothing else; every other
\* press (a section save, Save Version, AI Review, Edit / View, the sidebar,
\* a scan, a Generate Resume that failed) leaves it as it was.
C21_ResumeSetByThreePresses == [][ResumeStep]_vars

\* the first of two different snapshots has been loaded
C21_Witness ==
    /\ run.action = "load_version"
    /\ Len(resume_versions) = 2
    /\ resume_versions[1].value # resume_versions[2].value
    /\ run.messages[1].text = resume_versions[1].key
    /\ generated_resume = resume_versions[1].value

\* what a step may do to the version map
VersionsStep ==
    LET n == Len(resume_versions)
    IN /\ (resume_versions' # resume_versions) => (run'.action = "save_version")
       /\ (run'.action = "save_version" /\ generated_resume = <<>>) =>
            (resume_versions' = resume_versions)
       /\ (run'.action = "save_version" /\ generated_resume # <<>>) =>
            (/\ Len(resume_versions') = n + 1
             /\ SubSeq(resume_versions', 1, n) = resume_versions
             /\ resume_versions'[n + 1].value = generated_resume
             /\ resume_versions'[n + 1].key.counter = n + 1
             /\ resume_versions'[n + 1].key \notin Range(dict_keys(resume_versions))
             /\ run'.messages = <<Message("success", resume_versions'[n + 1].key)>>)

\* C22: the version map only grows: Save Version with a generated resume
\* appends one entry, labelled with the number of entries plus one and the
\* minute, a label no entry has yet, holding the current text, and leaves
\* every entry there was as it was; Save Version without a resume and every
\* other press (an edit, a generation, a load) leave the map unchanged.
C22_VersionsOnlyGrow == [][VersionsStep]_vars

\* two versions saved within the same minute
C22_Witness ==
    /\ run.action = "save_version"
    /\ Len(resume_versions) = 2
    /\ resume_versions[1].key.timestamp = resume_versions[2].key.timestamp
    /\ resume_versions[2].value = generated_resume

----------------------------------------------------------------------------
(* The record *)

\* what a Save of the section stores for the form it read: the personal
\* fields as they are, of an entries form the entries with both key fields
Stored(section, form) ==
    IF section = "personal_info" THEN form[1]
    ELSE LET kept == KeptIndices(form, SectionKeys[section])
         IN [n \in 1..Cardinality(kept) |-> form[Nth(kept, n)]]

\* what a step may do to the record
RecordStep ==
    LET section == run'.action
    IN /\ (resume_data' # resume_data) => (section \in DOMAIN resume_data)
       /\ (section \in DOMAIN resume_data) =>
            (/\ last_save'.section = section
             /\ resume_data'[section] = Stored(section, last_save'.form)
             /\ \A other \in DOMAIN resume_data \ {section} :
                   resume_data'[other] = resume_data[other])

\* C23: the record changes only by a section's Save: the Save puts in the
\* place of that section what the form holds (the personal fields as typed,
\* of an entries form the complete entries), whatever was stored there, and
\* leaves the other five sections as they were; a run of the script in which
\* no Save fired leaves the record unchanged.
C23_RecordSetBySaves == [][RecordStep]_vars

\* Save Work Experience over a stored entry, the form's second entry
\* incomplete, the other sections still as they were
C23_Witness ==
    /\ run.action = "experience"
    /\ Len(last_save.form) = 2
    /\ resume_data.experience = <<last_save.form[1]>>
    /\ resume_data.experience # FilledResumeData.experience
    /\ resume_data.education = FilledResumeData.education
    /\ resume_data.personal_info = FilledResumeData.personal_info

\* the press was a Generate Resume whose call raised
GenerateFailed(r) ==
    r.action = "generate" /\ r.calls = 1
        /\ r.messages = <<Message("exception", "invoke")>>

\* a Generate Resume whose call raises leaves the session as it was and
\* calls once; after one, Generate Resume can be pressed again and can
\* succeed
FailureStep ==
    /\ GenerateFailed(run') =>
         (/\ generated_resume' = generated_resume
          /\ edit_mode' = edit_mode
          /\ resume_data' = resume_data
          /\ resume_versions' = resume_versions
          /\ page' = page)
    /\ (run'.action = "generate") => (run'.calls <= 1)
    /\ (GenerateFailed(run) /\ page = "Resume Builder") =>
         ENABLED (GenerateResume /\ Generated(run'))

\* C24: when the model call of Generate Resume raises, the generated
\* resume, edit mode, the record and the version map are as they were before
\* the press, the press has made that one call and no other, and Generate
\* Resume can be pressed again with the call then returning.
C24_GenerateFailureIsLocal == [][FailureStep]_vars

\* the call raised with a resume being edited and a version saved
C24_Witness ==
    /\ GenerateFailed(run)
    /\ generated_resume # <<>>
    /\ edit_mode
    /\ resume_versions # <<>>

----------------------------------------------------------------------------
(* The conversation logs *)

\* user, assistant, user, assistant, ... : turn by turn
Alternates(log) ==
    /\ Len(log) % 2 = 0
    /\ \A i \in DOMAIN log :
          log[i].role = IF i % 2 = 1 THEN "user" ELSE "assistant"

\* C25: the general and the resume-guidance log alternate user, assistant
\* from a user turn on, whatever Send, quick-action and Clear History presses
\* came before and whether their calls returned or raised: the length is
\* even and every user turn has its reply right after it.
C25_LogsAlternate ==
    Alternates(chat_history_general) /\ Alternates(chat_history_guidance)

\* the practice log as the claim has it: interviewer and user turns, an
\* interviewer turn first, a user turn only after an interviewer turn, and
\* no user turn that is blank
Practice(log) ==
    /\ \A i \in DOMAIN log : log[i].role \in {"interviewer", "user"}
    /\ log # <<>> => log[1].role = "interviewer"
    /\ \A i \in DOMAIN log :
          log[i].role = "user" =>
              (i > 1 /\ log[i - 1].role = "interviewer" /\ ~IsBlank(log[i].content))

InterviewStep ==
    LET log == chat_history_interview
        next == chat_history_interview'
    IN /\ Practice(next)
       /\ (Len(next) > Len(log) /\ next[Len(log) + 1].role = "user") =>
            (log # <<>> /\ log[Len(log)].role = "interviewer")
       /\ (run'.action = "submit_answer" /\ run'.messages # <<>>
              /\ run'.messages[1].kind = "error") =>
            (next = log /\ run'.calls = 0)

\* C26: in the practice log, after any Get Interview Question, Submit
\* Answer and Clear Practice Session presses, with calls returning or
\* raising, the roles are 'interviewer' and 'user' only, the first turn is
\* an interviewer turn and no two user turns are adjacent: an answer is
\* appended only after an interviewer turn, and a blank answer leaves the log
\* as it was and calls nothing.
C26_PracticeLog == [][InterviewStep]_vars

\* a question asked after an answer whose feedback call raised
C26_Witness ==
    /\ Len(chat_history_interview) = 3
    /\ chat_history_interview[2].role = "user"
    /\ chat_history_interview[3].role = "interviewer"
    /\ chat_history_interview[3].content \in Answers
    /\ run.action = "get_question"

\* what a step may do to edit mode and to an existing resume
EditStep ==
    /\ edit_mode' => (generated_resume' # <<>>)
    /\ \A i \in DOMAIN resume_versions' : resume_versions'[i].value # <<>>
    /\ (edit_mode' /\ ~edit_mode) =>
         (run'.action = "toggle_edit" /\ generated_resume # <<>>)
    /\ (generated_resume' = <<>> /\ generated_resume # <<>>) =>
         (/\ Generated(run') \/ run'.action = "save_changes"
          /\ ~edit_mode')
    /\ (Generated(run') \/ run'.action = "save_changes") => ~edit_mode'

\* C27: edit mode is on only while the generated resume is non-empty, and
\* no stored snapshot is empty: only the Edit button, drawn with a non-empty
\* resume, turns edit mode on; a Generate Resume that stored a response and
\* Save Changes turn it off, and they are the only presses that can empty the
\* resume.
C27_EditModeHasResume == [][EditStep]_vars

\* Save Changes has stored an emptied text while a version exists
C27_Witness ==
    /\ run.action = "save_changes"
    /\ generated_resume = <<>>
    /\ ~edit_mode
    /\ resume_versions # <<>>

----------------------------------------------------------------------------
(* The ATS score *)

\* the analyses the last scan displayed
Displayed == {r \in Range(run.results) : r.kind = "analysis"}

\* the label the claim gives a score
BandLabel(score) ==
    IF score >= 80 THEN "Excellent" ELSE IF score >= 60 THEN "Good"
    ELSE IF score >= 40 THEN "Fair" ELSE "Needs Improvement"

\* C28: a scan answered with an integer score displays it with the label of
\* its colour band: below 40 'Needs Improvement', 40 to 59 'Fair', 60 to 79
\* 'Good', 80 and above 'Excellent'; a score below zero is never 'Excellent'.
C28_StatusMatchesBands ==
    (run.action = "scan" /\ run.calls = 1 /\ run.messages = <<>>) =>
        /\ Displayed # {}
        /\ \A r \in Displayed :
              /\ r.status = BandLabel(r.score)
              /\ r.score < 0 => r.status # "Excellent"

====
